---- MODULE Spec2Model ----
(***************************************************************************)
(* Red-black tree of rbtree.c: the node store, the rotations, rb_insert    *)
(* with its fixup, rb_delete with its fixup, the queries and               *)
(* rb_tree_destroy, over an arena of node cells indexed by small integers. *)
(* A pointer is an index of the arena; tree->nil is index 0.               *)
(***************************************************************************)
EXTENDS Integers, Sequences, FiniteSets, TLC

\* ------------------------------------------------------------------ bounds
MaxKey     == 8    \* Spec: keys are 1..MaxKey, one caller object per key
CallMaxKey == 5    \* SpecCall: keys are 1..CallMaxKey, one caller object per key
OwnMaxKey  == 3    \* SpecOwn: keys are 1..OwnMaxKey, two caller objects per key
MaxShape   == 4    \* SpecShape: coloured binary trees of 0..MaxShape nodes

\* --------------------------------------------------------------- constants
RB_RED          == 0
RB_BLACK        == 1
RB_OK           == 0
RB_ERROR        == -1
RB_NOT_FOUND    == -2
RB_DUPLICATE    == -3
RB_MEMORY_ERROR == -4

nil    == 0                      \* the cell of the sentinel, tree->nil
POISON == -1                     \* content of memory that is not allocated
NOCELL == -2                     \* malloc's NULL result
TREE_OBJECT == -3                \* the rb_tree_t object, in the order of frees
NULL   == <<0, 0>>               \* the null data pointer
PoisonData == <<POISON, POISON>>

Keys       == 1..MaxKey
Tags       == {1, 2}             \* two caller objects can carry the same key
Values     == Keys \X Tags       \* caller objects: <<key, identity>>
Probes     == Keys \X {0}        \* objects the caller passes as search keys
NodeIds    == 1..(MaxKey + 1)    \* node cells: one per key and one to spare
Cells      == {nil} \cup NodeIds

VARIABLES
    live,        \* the rb_tree_t object exists (between create and destroy)
    root,        \* tree->root
    size,        \* tree->size
    free_data,   \* tree->free_data is registered
    left,        \* node->left   of every cell
    right,       \* node->right  of every cell
    parent,      \* node->parent of every cell
    color,       \* node->color  of every cell
    data,        \* node->data   of every cell
    allocated,   \* the cells malloc has handed out and free has not taken back
    destructed,  \* per caller object: number of times free_data was invoked on it
    abs,         \* the abstract set run side by side with the tree: its objects
    taken,       \* the objects the tree took ownership of (destructor registered)
    observed,    \* the calls are being recorded in call
    call         \* the last completed public call: [op, arg, cell, ret, out]

vars == <<live, root, size, free_data, left, right, parent, color, data,
          allocated, destructed, abs, taken, observed, call>>

\* The memory the functions of rbtree.c work on, as one record. Two probes
\* ride along during a call and are dropped when it returns: the number of
\* rotations made and the number of passes through a fixup loop, the
\* <<field, value>> pairs written to the sentinel, the cells freed in the order
\* of the calls of free, whether a cell outside the heap was touched, and
\* whether a rotation was asked of the sentinel or of a node without the
\* child that is to come up, and the memory and the cursor z each time the
\* test of the loop of rb_insert_fixup is made.
Mem ==
    [live |-> live, root |-> root, size |-> size, free_data |-> free_data,
     left |-> left, right |-> right, parent |-> parent, color |-> color,
     data |-> data, allocated |-> allocated, destructed |-> destructed,
     rotations |-> 0, passes |-> 0,
     nil_writes |-> {}, freed |-> <<>>, stray |-> FALSE, bad_rotation |-> FALSE,
     heads |-> <<>>]

Commit(m) ==
    /\ live' = m.live
    /\ root' = m.root
    /\ size' = m.size
    /\ free_data' = m.free_data
    /\ left' = m.left
    /\ right' = m.right
    /\ parent' = m.parent
    /\ color' = m.color
    /\ data' = m.data
    /\ allocated' = m.allocated
    /\ destructed' = m.destructed

\* int_compare: (ia > ib) - (ia < ib) on the keys the two objects carry.
compare(a, b) ==
    (IF a[1] > b[1] THEN 1 ELSE 0) - (IF a[1] < b[1] THEN 1 ELSE 0)

\* free(node): the cell leaves the heap and its content is indeterminate.
free_cell(m, n) ==
    [m EXCEPT !.allocated = @ \ {n},
              !.freed = Append(@, n),
              !.stray = @ \/ n \notin m.allocated,
              !.left[n] = POISON, !.right[n] = POISON, !.parent[n] = POISON,
              !.color[n] = POISON, !.data[n] = PoisonData]

\* tree->free_data(data)
call_free_data(m, d) ==
    [m EXCEPT !.destructed[d] = @ + 1]

\* ----------------------------------------------------------------- probes
note_rotation(m, x, y) ==
    [m EXCEPT !.rotations = @ + 1,
              !.bad_rotation = @ \/ x = nil \/ y = nil]
note_pass(m)     == [m EXCEPT !.passes = @ + 1]
note_head(m, z)  == [m EXCEPT !.heads = Append(@, [m |-> [m EXCEPT !.heads = <<>>], z |-> z])]
note_touch(m, n) == [m EXCEPT !.stray = @ \/ n \notin m.allocated]
note_write(m, n, field, v) ==
    [m EXCEPT !.stray = @ \/ n \notin m.allocated,
              !.nil_writes = IF n = nil THEN @ \cup {<<field, v>>} ELSE @]

\* ------------------------------------------------------- field assignments
set_root(m, v)      == [m EXCEPT !.root = v]
set_left(m, n, v)   == [note_write(m, n, "left", v) EXCEPT !.left[n] = v]
set_right(m, n, v)  == [note_write(m, n, "right", v) EXCEPT !.right[n] = v]
set_parent(m, n, v) == [note_write(m, n, "parent", v) EXCEPT !.parent[n] = v]
set_color(m, n, c)  == [note_write(m, n, "color", c) EXCEPT !.color[n] = c]

\* ------------------------------------------------------------ node store
\* rb_node_create: a RED node with the three links at the sentinel.
\* cell is what malloc returned: a free cell, or NOCELL for NULL.
\* The result is [m, node]; node = NOCELL when malloc failed.
rb_node_create(m, d, cell) ==
    IF cell = NOCELL THEN [m |-> m, node |-> NOCELL]
    ELSE [m |-> [m EXCEPT !.allocated = @ \cup {cell},
                          !.data[cell] = d,
                          !.color[cell] = RB_RED,
                          !.left[cell] = nil,
                          !.right[cell] = nil,
                          !.parent[cell] = nil],
          node |-> cell]

\* if (tree->free_data) tree->free_data(node->data);
destroy_node_value(m, node) ==
    IF m.free_data THEN call_free_data(m, m.data[node]) ELSE m

\* rb_node_destroy: the destructor on the node's value, then the node.
rb_node_destroy(m, node) ==
    IF node # nil THEN free_cell(destroy_node_value(m, node), node) ELSE m

\* -------------------------------------------------------------- rotations
\* x->right = y->left;
left_rotate_1(m, x, y) == set_right(m, x, m.left[y])
\* A faulty left_rotate_2 without the test for the sentinel.
left_rotate_2_unguarded(m, x, y) == set_parent(m, m.left[y], x)

\* if (y->left != nil) y->left->parent = x;
left_rotate_2(m, x, y) ==
    IF m.left[y] # nil THEN set_parent(m, m.left[y], x) ELSE m
\* A faulty left_rotate_3 that leaves y's parent link as it was.
left_rotate_3_forgets(m, x, y) == m

\* y->parent = x->parent;
left_rotate_3(m, x, y) == set_parent(m, y, m.parent[x])
\* A faulty left_rotate_4 that always hands y to the root link.
left_rotate_4_to_root(m, x, y) == set_root(m, y)

\* the slot that held x now holds y
left_rotate_4(m, x, y) ==
    IF m.parent[x] = nil THEN set_root(m, y)
    ELSE IF x = m.left[m.parent[x]] THEN set_left(m, m.parent[x], y)
    ELSE set_right(m, m.parent[x], y)
\* y->left = x; x->parent = y;
left_rotate_5(m, x, y) == set_parent(set_left(m, y, x), x, y)

\* rb_left_rotate with y = x->right already read
left_rotate_around(m, x, y) ==
    left_rotate_5(left_rotate_4(left_rotate_3(left_rotate_2(
        left_rotate_1(m, x, y), x, y), x, y), x, y), x, y)

rb_left_rotate(m, x) == left_rotate_around(note_rotation(m, x, m.right[x]), x, m.right[x])

\* y->left = x->right;
right_rotate_1(m, y, x) == set_left(m, y, m.right[x])
\* if (x->right != nil) x->right->parent = y;
right_rotate_2(m, y, x) ==
    IF m.right[x] # nil THEN set_parent(m, m.right[x], y) ELSE m
\* x->parent = y->parent;
right_rotate_3(m, y, x) == set_parent(m, x, m.parent[y])
\* the slot that held y now holds x
right_rotate_4(m, y, x) ==
    IF m.parent[y] = nil THEN set_root(m, x)
    ELSE IF y = m.left[m.parent[y]] THEN set_left(m, m.parent[y], x)
    ELSE set_right(m, m.parent[y], x)
\* x->right = y; y->parent = x;
right_rotate_5(m, y, x) == set_parent(set_right(m, x, y), y, x)

\* rb_right_rotate with x = y->left already read
right_rotate_around(m, y, x) ==
    right_rotate_5(right_rotate_4(right_rotate_3(right_rotate_2(
        right_rotate_1(m, y, x), y, x), y, x), y, x), y, x)

rb_right_rotate(m, y) == right_rotate_around(note_rotation(m, y, m.left[y]), y, m.left[y])

\* ----------------------------------------------------------- insert fixup
\* A faulty insert_recolor that leaves the uncle RED.
insert_recolor_keeps_uncle(m, z, y) ==
    [m |-> set_color(set_color(m, m.parent[z], RB_BLACK), m.parent[m.parent[z]], RB_RED),
     z |-> m.parent[m.parent[z]]]

\* Uncle y RED: parent and uncle BLACK, grandparent RED, z = grandparent.
insert_recolor(m, z, y) ==
    [m |-> set_color(set_color(set_color(m, m.parent[z], RB_BLACK), y, RB_BLACK),
                     m.parent[m.parent[z]], RB_RED),
     z |-> m.parent[m.parent[z]]]

\* A faulty insert_paint that leaves the grandparent BLACK.
insert_paint_keeps_grandparent(m, z) == set_color(m, m.parent[z], RB_BLACK)

\* z->parent->color = RB_BLACK; z->parent->parent->color = RB_RED;
insert_paint(m, z) ==
    set_color(set_color(m, m.parent[z], RB_BLACK), m.parent[m.parent[z]], RB_RED)

\* Parent is a left child, uncle BLACK: if (z == z->parent->right) { z = z->parent; rotate }
insert_left_inner(m, z) ==
    IF z = m.right[m.parent[z]]
    THEN [m |-> rb_left_rotate(m, m.parent[z]), z |-> m.parent[z]]
    ELSE [m |-> m, z |-> z]

\* A faulty insert_left_outer that rotates without recolouring.
insert_left_outer_unpainted(s) ==
    [m |-> rb_right_rotate(s.m, s.m.parent[s.m.parent[s.z]]), z |-> s.z]

\* ... then the recolouring and the right rotation at the grandparent.
insert_left_outer(s) ==
    [m |-> rb_right_rotate(insert_paint(s.m, s.z), s.m.parent[s.m.parent[s.z]]),
     z |-> s.z]

\* Mirror: parent is a right child, uncle BLACK.
insert_right_inner(m, z) ==
    IF z = m.left[m.parent[z]]
    THEN [m |-> rb_right_rotate(m, m.parent[z]), z |-> m.parent[z]]
    ELSE [m |-> m, z |-> z]

insert_right_outer(s) ==
    [m |-> rb_left_rotate(insert_paint(s.m, s.z), s.m.parent[s.m.parent[s.z]]),
     z |-> s.z]

\* The branch where z's parent is a left child; y is the uncle.
insert_fixup_left(m, z, y) ==
    IF m.color[y] = RB_RED THEN insert_recolor(m, z, y)
    ELSE insert_left_outer(insert_left_inner(m, z))

\* The branch where z's parent is a right child; y is the uncle.
insert_fixup_right(m, z, y) ==
    IF m.color[y] = RB_RED THEN insert_recolor(m, z, y)
    ELSE insert_right_outer(insert_right_inner(m, z))

\* One pass of the body of the while loop of rb_insert_fixup: [m, z] after it.
insert_fixup_body(m, z) ==
    IF m.parent[z] = m.left[m.parent[m.parent[z]]]
    THEN insert_fixup_left(m, z, m.right[m.parent[m.parent[z]]])
    ELSE insert_fixup_right(m, z, m.left[m.parent[m.parent[z]]])

\* while (z->parent->color == RB_RED) body; s is [m, z]
RECURSIVE insert_fixup_loop(_)
insert_fixup_loop(s) ==
    IF s.m.color[s.m.parent[s.z]] = RB_RED
    THEN insert_fixup_loop(insert_fixup_body(note_pass(note_head(s.m, s.z)), s.z))
    ELSE note_head(s.m, s.z)

\* tree->root->color = RB_BLACK;
paint_root_black(m) == set_color(m, m.root, RB_BLACK)

\* A faulty rb_insert_fixup that only paints the root.
rb_insert_fixup_paints_only(m, z) == paint_root_black(m)

rb_insert_fixup(m, z) == paint_root_black(insert_fixup_loop([m |-> m, z |-> z]))

\* ----------------------------------------------------------------- insert
\* The descent of rb_insert from x with y the node last visited:
\* [dup |-> TRUE] on an equal key, else [dup |-> FALSE, y |-> the parent-to-be].
RECURSIVE insert_descend(_, _, _, _)
insert_descend(m, d, x, y) ==
    IF x = nil THEN [dup |-> FALSE, y |-> y]
    ELSE IF compare(d, m.data[x]) < 0 THEN insert_descend(m, d, m.left[x], x)
    ELSE IF compare(d, m.data[x]) > 0 THEN insert_descend(m, d, m.right[x], x)
    ELSE [dup |-> TRUE, y |-> x]

\* A faulty insert_attach that takes the wrong side of y.
insert_attach_mirrored(m, d, z, y) ==
    IF y = nil THEN set_root(m, z)
    ELSE IF compare(d, m.data[y]) < 0 THEN set_right(m, y, z)
    ELSE set_left(m, y, z)

\* z becomes the root, or the left or right child of y.
insert_attach(m, d, z, y) ==
    IF y = nil THEN set_root(m, z)
    ELSE IF compare(d, m.data[y]) < 0 THEN set_left(m, y, z)
    ELSE set_right(m, y, z)

\* z->parent = y; then the attachment.
insert_link(m, d, z, y) == insert_attach(set_parent(m, z, y), d, z, y)

\* tree->size++
size_increment(m) == [m EXCEPT !.size = @ + 1]

\* A faulty insert_finish that gives up the node of a duplicate with
\* rb_node_destroy, which hands the caller's value to the destructor.
insert_finish_destroys(m, d, z, f) ==
    IF f.dup THEN [m |-> rb_node_destroy(m, z), ret |-> RB_DUPLICATE]
    ELSE [m |-> size_increment(rb_insert_fixup(insert_link(m, d, z, f.y), z)),
          ret |-> RB_OK]

\* rb_insert after the descent f: the duplicate exit, or link, fixup and count.
insert_finish(m, d, z, f) ==
    IF f.dup THEN [m |-> free_cell(m, z), ret |-> RB_DUPLICATE]
    ELSE [m |-> size_increment(rb_insert_fixup(insert_link(m, d, z, f.y), z)),
          ret |-> RB_OK]

\* A faulty insert_node that destroys the value when no node is to be had.
insert_node_destructs(c, d) ==
    IF c.node = NOCELL THEN [m |-> call_free_data(c.m, d), ret |-> RB_MEMORY_ERROR]
    ELSE insert_finish(c.m, d, c.node, insert_descend(c.m, d, c.m.root, nil))

\* rb_insert after rb_node_create returned c = [m, node].
insert_node(c, d) ==
    IF c.node = NOCELL THEN [m |-> c.m, ret |-> RB_MEMORY_ERROR]
    ELSE insert_finish(c.m, d, c.node, insert_descend(c.m, d, c.m.root, nil))

\* rb_insert(tree, data): [m, ret]. cell is what malloc returns to rb_node_create.
rb_insert(m, d, cell) ==
    IF d = NULL THEN [m |-> m, ret |-> RB_ERROR]
    ELSE insert_node(rb_node_create(m, d, cell), d)

\* ----------------------------------------------------------------- delete
\* The slot that held u now holds v.
transplant_slot(m, u, v) ==
    IF m.parent[u] = nil THEN set_root(m, v)
    ELSE IF u = m.left[m.parent[u]] THEN set_left(m, m.parent[u], v)
    ELSE set_right(m, m.parent[u], v)

\* v->parent = u->parent;
transplant_parent(m, u, v) == set_parent(m, v, m.parent[u])

rb_transplant(m, u, v) == transplant_parent(transplant_slot(m, u, v), u, v)

\* The sibling re-read after a rotation: w = x->parent->right (->left).
with_right_sibling(m, x) == [m |-> m, w |-> m.right[m.parent[x]]]
with_left_sibling(m, x)  == [m |-> m, w |-> m.left[m.parent[x]]]

\* A faulty delete_paint_1 that leaves the parent's colour as it was.
delete_paint_1_keeps_parent(m, x, w) == set_color(m, w, RB_BLACK)

\* w->color = RB_BLACK; x->parent->color = RB_RED;
delete_paint_1(m, x, w) == set_color(set_color(m, w, RB_BLACK), m.parent[x], RB_RED)

\* x is a left child. Sibling RED: recolour, rotate left at the parent, re-read w.
delete_left_1(m, x) ==
    IF m.color[m.right[m.parent[x]]] = RB_RED
    THEN with_right_sibling(
             rb_left_rotate(delete_paint_1(m, x, m.right[m.parent[x]]), m.parent[x]), x)
    ELSE with_right_sibling(m, x)

\* A faulty delete_left_3 that rotates whatever the colour of w's far child.
delete_left_3_always(a, x) ==
    with_right_sibling(
        rb_right_rotate(set_color(set_color(a.m, a.m.left[a.w], RB_BLACK), a.w, RB_RED),
                        a.w), x)

\* w's far child BLACK: w->left->color = RB_BLACK; w->color = RB_RED; rotate right at w.
delete_left_3(a, x) ==
    IF a.m.color[a.m.right[a.w]] = RB_BLACK
    THEN with_right_sibling(
             rb_right_rotate(set_color(set_color(a.m, a.m.left[a.w], RB_BLACK), a.w, RB_RED),
                             a.w), x)
    ELSE a

\* w->color = x->parent->color; x->parent->color = RB_BLACK; w->right->color = RB_BLACK;
delete_left_paint_4(m, x, w) ==
    set_color(set_color(set_color(m, w, m.color[m.parent[x]]), m.parent[x], RB_BLACK),
              m.right[w], RB_BLACK)

\* x = tree->root
cursor_to_root(m) == [m |-> m, x |-> m.root]

\* A faulty delete_left_4 that leaves the cursor where it is.
delete_left_4_keeps_cursor(b, x) ==
    [m |-> rb_left_rotate(delete_left_paint_4(b.m, x, b.w), b.m.parent[x]), x |-> x]

delete_left_4(b, x) ==
    cursor_to_root(rb_left_rotate(delete_left_paint_4(b.m, x, b.w), b.m.parent[x]))

\* After the RED-sibling step: both of w's children BLACK, or the rotations.
delete_left_2(a, x) ==
    IF a.m.color[a.m.left[a.w]] = RB_BLACK /\ a.m.color[a.m.right[a.w]] = RB_BLACK
    THEN [m |-> set_color(a.m, a.w, RB_RED), x |-> a.m.parent[x]]
    ELSE delete_left_4(delete_left_3(a, x), x)

\* Mirror: x is a right child.
delete_right_1(m, x) ==
    IF m.color[m.left[m.parent[x]]] = RB_RED
    THEN with_left_sibling(
             rb_right_rotate(delete_paint_1(m, x, m.left[m.parent[x]]), m.parent[x]), x)
    ELSE with_left_sibling(m, x)

delete_right_3(a, x) ==
    IF a.m.color[a.m.left[a.w]] = RB_BLACK
    THEN with_left_sibling(
             rb_left_rotate(set_color(set_color(a.m, a.m.right[a.w], RB_BLACK), a.w, RB_RED),
                            a.w), x)
    ELSE a

delete_right_paint_4(m, x, w) ==
    set_color(set_color(set_color(m, w, m.color[m.parent[x]]), m.parent[x], RB_BLACK),
              m.left[w], RB_BLACK)

\* A faulty delete_right_4 that leaves the cursor where it is.
delete_right_4_keeps_cursor(b, x) ==
    [m |-> rb_right_rotate(delete_right_paint_4(b.m, x, b.w), b.m.parent[x]), x |-> x]

delete_right_4(b, x) ==
    cursor_to_root(rb_right_rotate(delete_right_paint_4(b.m, x, b.w), b.m.parent[x]))

delete_right_2(a, x) ==
    IF a.m.color[a.m.right[a.w]] = RB_BLACK /\ a.m.color[a.m.left[a.w]] = RB_BLACK
    THEN [m |-> set_color(a.m, a.w, RB_RED), x |-> a.m.parent[x]]
    ELSE delete_right_4(delete_right_3(a, x), x)

\* One pass of the body of the while loop of rb_delete_fixup: [m, x] after it.
delete_fixup_body(m, x) ==
    IF x = m.left[m.parent[x]]
    THEN delete_left_2(delete_left_1(m, x), x)
    ELSE delete_right_2(delete_right_1(m, x), x)

\* while (x != tree->root && x->color == RB_BLACK) body; s is [m, x]
RECURSIVE delete_fixup_loop(_)
delete_fixup_loop(s) ==
    IF s.x # s.m.root /\ s.m.color[s.x] = RB_BLACK
    THEN delete_fixup_loop(delete_fixup_body(note_pass(s.m), s.x))
    ELSE s

\* A faulty paint_cursor_black that paints the cursor RED.
paint_cursor_red(s) == set_color(s.m, s.x, RB_RED)

\* x->color = RB_BLACK;
paint_cursor_black(s) == set_color(s.m, s.x, RB_BLACK)

rb_delete_fixup(m, x) == paint_cursor_black(delete_fixup_loop([m |-> m, x |-> x]))

\* A faulty descent that turns the wrong way.
RECURSIVE find_from_mirrored(_, _, _)
find_from_mirrored(m, d, current) ==
    IF current = nil THEN nil
    ELSE IF compare(d, m.data[current]) < 0 THEN find_from_mirrored(m, d, m.right[current])
    ELSE IF compare(d, m.data[current]) > 0 THEN find_from_mirrored(m, d, m.left[current])
    ELSE current

\* rb_find_node from current: the node with a key equal to d's, or the sentinel.
RECURSIVE find_from(_, _, _)
find_from(m, d, current) ==
    IF current = nil THEN nil
    ELSE IF compare(d, m.data[current]) < 0 THEN find_from(m, d, m.left[current])
    ELSE IF compare(d, m.data[current]) > 0 THEN find_from(m, d, m.right[current])
    ELSE current

rb_find_node(m, d) == find_from(m, d, m.root)

RECURSIVE rb_tree_minimum_node(_, _)
rb_tree_minimum_node(m, node) ==
    IF m.left[node] # nil THEN rb_tree_minimum_node(m, m.left[node]) ELSE node

RECURSIVE rb_tree_maximum_node(_, _)
rb_tree_maximum_node(m, node) ==
    IF m.right[node] # nil THEN rb_tree_maximum_node(m, m.right[node]) ELSE node

\* y->right = z->right; y->right->parent = y;
splice_adopt_right(m, z, y) == set_parent(set_right(m, y, m.right[z]), m.right[z], y)

\* A faulty splice_detach that leaves x's parent link alone when y is z's child.
splice_detach_forgets(m, z, y, x) ==
    IF m.parent[y] = z THEN m
    ELSE splice_adopt_right(rb_transplant(m, y, m.right[y]), z, y)

\* y leaves its place: x->parent = y when y is z's child, else the transplant.
splice_detach(m, z, y, x) ==
    IF m.parent[y] = z THEN set_parent(m, x, y)
    ELSE splice_adopt_right(rb_transplant(m, y, m.right[y]), z, y)

\* A faulty splice_adopt_left that forgets z's left subtree.
splice_adopt_left_forgets(m, z, y) == set_color(m, y, m.color[z])

\* A faulty splice_adopt_left that leaves y its own colour.
splice_adopt_left_keeps_colour(m, z, y) ==
    set_parent(set_left(m, y, m.left[z]), m.left[z], y)

\* y->left = z->left; y->left->parent = y; y->color = z->color;
splice_adopt_left(m, z, y) ==
    set_color(set_parent(set_left(m, y, m.left[z]), m.left[z], y), y, m.color[z])

\* z has two children and y is the minimum of its right subtree.
splice_successor(m, z, y) ==
    [m |-> splice_adopt_left(
               rb_transplant(splice_detach(m, z, y, m.right[y]), z, y), z, y),
     x |-> m.right[y],
     y_original_color |-> m.color[y]]

\* The three branches of rb_delete on z's children:
\* [m, x, y_original_color] before the fixup.
delete_splice(m, z) ==
    IF m.left[z] = nil
    THEN [m |-> rb_transplant(m, z, m.right[z]), x |-> m.right[z],
          y_original_color |-> m.color[z]]
    ELSE IF m.right[z] = nil
    THEN [m |-> rb_transplant(m, z, m.left[z]), x |-> m.left[z],
          y_original_color |-> m.color[z]]
    ELSE splice_successor(m, z, rb_tree_minimum_node(m, m.right[z]))

\* if (y_original_color == RB_BLACK) rb_delete_fixup(tree, x);
delete_rebalance(s) ==
    IF s.y_original_color = RB_BLACK THEN rb_delete_fixup(s.m, s.x) ELSE s.m

\* A faulty size_decrement that leaves the count.
size_decrement_forgets(m) == m

\* tree->size--
size_decrement(m) == [m EXCEPT !.size = @ - 1]

\* A faulty delete_node that counts the node down before it looks at z.
delete_node_counts_first(m, z) ==
    IF z = nil THEN [m |-> size_decrement(m), ret |-> RB_NOT_FOUND]
    ELSE [m |-> size_decrement(rb_node_destroy(delete_rebalance(delete_splice(m, z)), z)),
          ret |-> RB_OK]

\* rb_delete after rb_find_node returned z.
delete_node(m, z) ==
    IF z = nil THEN [m |-> m, ret |-> RB_NOT_FOUND]
    ELSE [m |-> size_decrement(rb_node_destroy(delete_rebalance(delete_splice(m, z)), z)),
          ret |-> RB_OK]

\* rb_delete(tree, data): [m, ret].
rb_delete(m, d) ==
    IF d = NULL THEN [m |-> m, ret |-> RB_ERROR]
    ELSE delete_node(m, rb_find_node(m, d))

\* return (node != tree->nil) ? node->data : NULL;
data_or_null(m, node) == IF node # nil THEN m.data[node] ELSE NULL

\* rb_tree_successor_node without a right subtree: climb while node is a right child.
RECURSIVE successor_climb(_, _, _)
successor_climb(m, node, y) ==
    IF y # nil /\ node = m.right[y] THEN successor_climb(m, y, m.parent[y]) ELSE y

rb_tree_successor_node(m, node) ==
    IF m.right[node] # nil THEN rb_tree_minimum_node(m, m.right[node])
    ELSE successor_climb(m, node, m.parent[node])

\* A faulty climb that stops at the parent.
predecessor_climb_stops(m, node, y) == y

\* rb_tree_predecessor_node without a left subtree: climb while node is a left child.
RECURSIVE predecessor_climb(_, _, _)
predecessor_climb(m, node, y) ==
    IF y # nil /\ node = m.left[y] THEN predecessor_climb(m, y, m.parent[y]) ELSE y

rb_tree_predecessor_node(m, node) ==
    IF m.left[node] # nil THEN rb_tree_maximum_node(m, m.left[node])
    ELSE predecessor_climb(m, node, m.parent[node])

\* rb_successor after rb_find_node returned node.
successor_of_found(m, node) ==
    IF node = nil THEN NULL ELSE data_or_null(m, rb_tree_successor_node(m, node))

rb_successor(m, d) ==
    IF d = NULL THEN NULL ELSE successor_of_found(m, rb_find_node(m, d))

\* rb_predecessor after rb_find_node returned node.
predecessor_of_found(m, node) ==
    IF node = nil THEN NULL ELSE data_or_null(m, rb_tree_predecessor_node(m, node))

rb_predecessor(m, d) ==
    IF d = NULL THEN NULL ELSE predecessor_of_found(m, rb_find_node(m, d))

\* ---------------------------------------------------------------- queries
rb_search(m, d) ==
    IF d = NULL THEN NULL ELSE data_or_null(m, rb_find_node(m, d))

\* The walks, as the sequence of values handed to the visitor.
RECURSIVE rb_inorder_walk_node(_, _)
rb_inorder_walk_node(m, node) ==
    IF node # nil
    THEN rb_inorder_walk_node(m, m.left[node]) \o <<m.data[node]>>
         \o rb_inorder_walk_node(m, m.right[node])
    ELSE <<>>

\* A faulty rb_preorder_walk_node that visits the node after its left subtree.
rb_preorder_walk_node_late(m, node) == rb_inorder_walk_node(m, node)

RECURSIVE rb_preorder_walk_node(_, _)
rb_preorder_walk_node(m, node) ==
    IF node # nil
    THEN <<m.data[node]>> \o rb_preorder_walk_node(m, m.left[node])
         \o rb_preorder_walk_node(m, m.right[node])
    ELSE <<>>

RECURSIVE rb_postorder_walk_node(_, _)
rb_postorder_walk_node(m, node) ==
    IF node # nil
    THEN rb_postorder_walk_node(m, m.left[node])
         \o rb_postorder_walk_node(m, m.right[node]) \o <<m.data[node]>>
    ELSE <<>>

rb_inorder_walk(m)   == rb_inorder_walk_node(m, m.root)
rb_preorder_walk(m)  == rb_preorder_walk_node(m, m.root)
rb_postorder_walk(m) == rb_postorder_walk_node(m, m.root)

rb_size(m) == m.size

rb_is_empty(m) == m.size = 0

\* rb_height_node: the number of nodes on the longest path from node down.
RECURSIVE rb_height_node(_, _)
rb_height_node(m, node) ==
    IF node = nil THEN 0
    ELSE 1 + (IF rb_height_node(m, m.left[node]) > rb_height_node(m, m.right[node])
              THEN rb_height_node(m, m.left[node])
              ELSE rb_height_node(m, m.right[node]))

rb_height(m) == rb_height_node(m, m.root)

\* A faulty valid_join that does not compare the two black-heights.
valid_join_ignores_heights(m, node, l, r) ==
    IF ~l.ok \/ ~r.ok THEN [ok |-> FALSE, black_height |-> 0]
    ELSE [ok |-> TRUE,
          black_height |-> l.black_height + (IF m.color[node] = RB_BLACK THEN 1 ELSE 0)]

\* The last lines of rb_is_valid_node, the two children having reported l and r.
valid_join(m, node, l, r) ==
    IF ~l.ok \/ ~r.ok THEN [ok |-> FALSE, black_height |-> 0]
    ELSE IF l.black_height # r.black_height THEN [ok |-> FALSE, black_height |-> 0]
    ELSE [ok |-> TRUE,
          black_height |-> l.black_height + (IF m.color[node] = RB_BLACK THEN 1 ELSE 0)]

\* rb_is_valid_node: [ok, black_height]; black_height is meaningful when ok.
RECURSIVE rb_is_valid_node(_, _)
rb_is_valid_node(m, node) ==
    IF node = nil THEN [ok |-> TRUE, black_height |-> 1]
    ELSE IF m.color[node] = RB_RED
            /\ (m.color[m.left[node]] # RB_BLACK \/ m.color[m.right[node]] # RB_BLACK)
    THEN [ok |-> FALSE, black_height |-> 0]
    ELSE valid_join(m, node, rb_is_valid_node(m, m.left[node]),
                    rb_is_valid_node(m, m.right[node]))

rb_is_valid(m) ==
    IF m.root # nil /\ m.color[m.root] # RB_BLACK THEN FALSE
    ELSE rb_is_valid_node(m, m.root).ok

\* The test count_range_nodes makes twice: min_key <= node->data <= max_key.
count_in_range(m, node, min_key, max_key) ==
    compare(m.data[node], min_key) >= 0 /\ compare(m.data[node], max_key) <= 0

\* count_range_nodes: what the call adds to *count.
RECURSIVE count_range_nodes(_, _, _, _)
count_range_nodes(m, node, min_key, max_key) ==
    IF node = nil THEN 0
    ELSE (IF count_in_range(m, node, min_key, max_key) THEN 1 ELSE 0)
         + (IF compare(m.data[node], min_key) > 0
            THEN count_range_nodes(m, m.left[node], min_key, max_key) ELSE 0)
         + (IF compare(m.data[node], max_key) < 0
            THEN count_range_nodes(m, m.right[node], min_key, max_key) ELSE 0)
         + (IF count_in_range(m, node, min_key, max_key)
            THEN count_range_nodes(m, m.left[node], min_key, max_key)
                 + count_range_nodes(m, m.right[node], min_key, max_key)
            ELSE 0)

rb_count_range(m, min_key, max_key) ==
    IF min_key = NULL \/ max_key = NULL THEN 0
    ELSE count_range_nodes(m, m.root, min_key, max_key)

\* ---------------------------------------------------------------- destroy
\* destroy_node_data over the post-order walk: the destructor on each value.
RECURSIVE destroy_values(_, _)
destroy_values(m, walk) ==
    IF walk = <<>> THEN m
    ELSE destroy_values(call_free_data(m, Head(walk)), Tail(walk))

\* A faulty destroy_walk that frees the nodes without destroying the values.
destroy_walk_skips(m) == m

\* if (tree->free_data) rb_postorder_walk(tree, destroy_node_data, tree);
destroy_walk(m) ==
    IF m.free_data THEN destroy_values(m, rb_postorder_walk(m)) ELSE m

\* A leaf temp is unhooked from its parent up.
destroy_unhook(m, temp, up) ==
    IF up # nil
    THEN IF m.left[up] = temp THEN set_left(m, up, nil) ELSE set_right(m, up, nil)
    ELSE m

\* The node-freeing loop of rb_tree_destroy, from cursor current.
RECURSIVE destroy_loop(_, _)
destroy_loop(m, current) ==
    IF current = nil THEN m
    ELSE IF m.left[current] # nil
         THEN destroy_loop(note_touch(m, current), m.left[current])
    ELSE IF m.right[current] # nil
         THEN destroy_loop(note_touch(m, current), m.right[current])
    ELSE destroy_loop(free_cell(destroy_unhook(note_touch(m, current), current,
                                               m.parent[current]), current),
                      m.parent[current])

\* A faulty destroy_nodes that frees no node.
destroy_nodes_leaks(m) == m

\* while-loop of rb_tree_destroy from the root
destroy_nodes(m) == destroy_loop(m, m.root)

\* free(tree->nil); free(tree);
destroy_tree_object(m) ==
    [free_cell(m, nil) EXCEPT !.live = FALSE, !.root = POISON, !.size = POISON,
                              !.freed = Append(@, TREE_OBJECT)]

\* rb_tree_destroy(tree): the memory after it; the tree object is gone.
rb_tree_destroy(m) == destroy_tree_object(destroy_nodes(destroy_walk(m)))

\* ------------------------------------------------------------ the machine
\* The values the tree stores: the data of the nodes reachable from the root.
Stored == IF live THEN {rb_inorder_walk(Mem)[i] : i \in 1..Len(rb_inorder_walk(Mem))}
          ELSE {}

\* rb_tree_create(compare, free_func), malloc having succeeded twice.
Create(free_func, obs) ==
    /\ live = TRUE
    /\ root = nil
    /\ size = 0
    /\ free_data = free_func
    /\ left   = [c \in Cells |-> IF c = nil THEN nil ELSE POISON]
    /\ right  = [c \in Cells |-> IF c = nil THEN nil ELSE POISON]
    /\ parent = [c \in Cells |-> IF c = nil THEN nil ELSE POISON]
    /\ color  = [c \in Cells |-> IF c = nil THEN RB_BLACK ELSE POISON]
    /\ data   = [c \in Cells |-> IF c = nil THEN NULL ELSE PoisonData]
    /\ allocated = {nil}
    /\ destructed = [v \in Values |-> 0]
    /\ abs = {}
    /\ taken = {}
    /\ observed = obs
    /\ call = [op |-> "create", arg |-> NULL, cell |-> nil, ret |-> RB_OK, out |-> NULL]

\* The call just completed is recorded when the calls are observed.
Record(c) ==
    /\ observed' = observed
    /\ call' = IF observed THEN c ELSE call

\* What malloc can return for the node of d: NULL, or a free cell. The code never
\* orders or inspects addresses, so one free cell stands for all of them: the
\* cell numbered by the key when it is free, else the lowest free one.
MallocResults(d) ==
    LET free == NodeIds \ allocated IN
    {NOCELL} \cup
    (IF free = {} THEN {}
     ELSE IF d[1] \in free THEN {d[1]}
     ELSE {CHOOSE n \in free : \A o \in free : n <= o})

\* The abstract set: insert adds an object unless one with an equal key is in it
\* (or no memory was to be had), delete removes the object with an equal key.
AbsInsert(set, d, cell) ==
    IF d = NULL \/ cell = NOCELL \/ (\E u \in set : compare(u, d) = 0) THEN set
    ELSE set \cup {d}

AbsDelete(set, d) ==
    IF d = NULL THEN set ELSE {u \in set : compare(u, d) # 0}

\* The caller holds d: it was not handed to the destructor, and when the tree
\* owns its values (a destructor is registered) d is not one of them.
CallerHolds(d) == destructed[d] = 0 /\ (free_data => d \notin Stored)

\* rb_insert has returned r = [m, ret].
InsertReturns(d, cell, r) ==
    /\ Commit(r.m)
    /\ Record([op |-> "insert", arg |-> d, cell |-> cell, ret |-> r.ret, out |-> NULL])
    /\ taken' = IF free_data /\ r.ret = RB_OK THEN taken \cup {d} ELSE taken

\* rb_insert(tree, d) by a caller that holds d (or passes NULL).
Insert(d, cell) ==
    /\ live
    /\ d # NULL => CallerHolds(d)
    /\ cell \in MallocResults(d)
    /\ InsertReturns(d, cell, rb_insert(Mem, d, cell))
    /\ abs' = AbsInsert(abs, d, cell)

\* rb_delete has returned r = [m, ret].
DeleteReturns(d, r) ==
    /\ Commit(r.m)
    /\ Record([op |-> "delete", arg |-> d, cell |-> nil, ret |-> r.ret, out |-> NULL])

\* rb_delete(tree, d)
Delete(d) ==
    /\ live
    /\ DeleteReturns(d, rb_delete(Mem, d))
    /\ abs' = AbsDelete(abs, d)
    /\ taken' = taken

\* rb_search(tree, d)
Search(d) ==
    /\ live
    /\ Commit(Mem)
    /\ Record([op |-> "search", arg |-> d, cell |-> nil, ret |-> RB_OK,
                out |-> rb_search(Mem, d)])
    /\ abs' = abs
    /\ taken' = taken

\* rb_tree_destroy(tree)
Destroy ==
    /\ live
    /\ Commit(rb_tree_destroy(Mem))
    /\ Record([op |-> "destroy", arg |-> NULL, cell |-> nil, ret |-> RB_OK, out |-> NULL])
    /\ abs' = abs
    /\ taken' = taken

\* The calls a caller makes with its objects cvalues and its search keys probes.
Calls(cvalues, probes) ==
    \/ \E d \in cvalues \cup {NULL} : \E cell \in NodeIds \cup {NOCELL} : Insert(d, cell)
    \/ \E d \in probes \cup {NULL} : Delete(d)
    \/ \E d \in probes \cup {NULL} : Search(d)
    \/ Destroy

\* The tree a caller without destructor has after insert 1, 2, ..., 10 and then
\* delete 10, 9, 7: seven nodes, all BLACK. (Ten keys are needed to get there;
\* no sequence over fewer keys leaves seven BLACK nodes and nothing else.)
\* The sentinel's parent link is as the last rb_transplant left it.
WarmKeys == {1, 2, 3, 4, 5, 6, 8}
WarmLeft   == (4 :> 2) @@ (2 :> 1) @@ (6 :> 5)
WarmRight  == (4 :> 6) @@ (2 :> 3) @@ (6 :> 8)
WarmParent == (4 :> nil) @@ (2 :> 4) @@ (6 :> 4) @@ (1 :> 2) @@ (3 :> 2)
              @@ (5 :> 6) @@ (8 :> 6) @@ (nil :> 8)
Link(f, c) == IF c \in DOMAIN f THEN f[c] ELSE nil

WarmStart ==
    /\ live = TRUE
    /\ root = 4
    /\ size = 7
    /\ free_data = FALSE
    /\ left   = [c \in Cells |-> IF c \in WarmKeys \cup {nil} THEN Link(WarmLeft, c) ELSE POISON]
    /\ right  = [c \in Cells |-> IF c \in WarmKeys \cup {nil} THEN Link(WarmRight, c) ELSE POISON]
    /\ parent = [c \in Cells |-> IF c \in WarmKeys \cup {nil} THEN Link(WarmParent, c) ELSE POISON]
    /\ color  = [c \in Cells |-> IF c \in WarmKeys \cup {nil} THEN RB_BLACK ELSE POISON]
    /\ data   = [c \in Cells |-> IF c \in WarmKeys THEN <<c, 1>>
                                 ELSE IF c = nil THEN NULL ELSE PoisonData]
    /\ allocated = WarmKeys \cup {nil}
    /\ destructed = [v \in Values |-> 0]
    /\ abs = WarmKeys \X {1}
    /\ taken = {}
    /\ observed = FALSE
    /\ call = [op |-> "create", arg |-> NULL, cell |-> nil, ret |-> RB_OK, out |-> NULL]

\* Spec: a tree without destructor, one caller object per key, keys 1..MaxKey,
\* from the new tree and from the seven BLACK nodes.
Init == Create(FALSE, FALSE) \/ WarmStart
Next == Calls(Keys \X {1}, Probes)
Spec == Init /\ [][Next]_vars

\* SpecCall: as Spec with the calls recorded, keys 1..CallMaxKey.
InitCall == Create(FALSE, TRUE)
NextCall == Calls((1..CallMaxKey) \X {1}, (1..CallMaxKey) \X {0})
SpecCall == InitCall /\ [][NextCall]_vars

\* SpecOwn: a tree with a destructor, the calls recorded, two caller objects
\* per key, keys 1..OwnMaxKey.
InitOwn == Create(TRUE, TRUE)
NextOwn == Calls((1..OwnMaxKey) \X Tags, (1..OwnMaxKey) \X {0})
SpecOwn == InitOwn /\ [][NextOwn]_vars

\* SpecShape: rb_is_valid and the two rotations on every coloured binary tree
\* of up to MaxShape nodes, whether or not rb_insert and rb_delete can build
\* it. The cells of a tree are numbered in in-order; the values are in
\* ascending or in descending in-order.
\* The shapes over the cells lo..hi: [root, left, right].
RECURSIVE Shapes(_, _)
Shapes(lo, hi) ==
    IF lo > hi THEN {[root |-> nil, left |-> <<>>, right |-> <<>>]}
    ELSE UNION {{[root  |-> r,
                  left  |-> (r :> l.root) @@ l.left @@ g.left,
                  right |-> (r :> g.root) @@ l.right @@ g.right] :
                     l \in Shapes(lo, r - 1), g \in Shapes(r + 1, hi)} :
                r \in lo..hi}

\* The parent of cell c in shape sh, the sentinel for the root.
ParentIn(sh, c) ==
    IF \E p \in DOMAIN sh.left : sh.left[p] = c \/ sh.right[p] = c
    THEN CHOOSE p \in DOMAIN sh.left : sh.left[p] = c \/ sh.right[p] = c
    ELSE nil

\* The field of cell c: of a node, of the sentinel, of memory not allocated.
FieldOf(c, n, of_node, of_nil, of_free) ==
    IF c \in 1..n THEN of_node ELSE IF c = nil THEN of_nil ELSE of_free

ShapeStart(n, sh, col, ascending) ==
    /\ live = TRUE
    /\ root = sh.root
    /\ size = n
    /\ free_data = FALSE
    /\ left   = [c \in Cells |-> FieldOf(c, n, Link(sh.left, c), nil, POISON)]
    /\ right  = [c \in Cells |-> FieldOf(c, n, Link(sh.right, c), nil, POISON)]
    /\ parent = [c \in Cells |-> FieldOf(c, n, ParentIn(sh, c), nil, POISON)]
    /\ color  = [c \in Cells |-> FieldOf(c, n, Link(col, c), RB_BLACK, POISON)]
    /\ data   = [c \in Cells |->
                     FieldOf(c, n, <<IF ascending THEN c ELSE n + 1 - c, 1>>,
                             NULL, PoisonData)]
    /\ allocated = 0..n
    /\ destructed = [v \in Values |-> 0]
    /\ abs = {}
    /\ taken = {}
    /\ observed = TRUE
    /\ call = [op |-> "create", arg |-> NULL, cell |-> nil, ret |-> RB_OK, out |-> NULL]

InitShape ==
    \E n \in 0..MaxShape : \E sh \in Shapes(1, n) :
        \E col \in [1..n -> {RB_RED, RB_BLACK}] : \E ascending \in BOOLEAN :
            ShapeStart(n, sh, col, ascending)

\* rb_is_valid(tree): the result is recorded as C's true (1) or false (0).
IsValid ==
    /\ live
    /\ Commit(Mem)
    /\ Record([op |-> "is_valid", arg |-> NULL, cell |-> nil,
                ret |-> IF rb_is_valid(Mem) THEN 1 ELSE 0, out |-> NULL])
    /\ abs' = abs
    /\ taken' = taken

\* rb_left_rotate(tree, x) on a node x with a right child.
LeftRotate(x) ==
    /\ live
    /\ x \in allocated \ {nil}
    /\ right[x] # nil
    /\ Commit(rb_left_rotate(Mem, x))
    /\ Record([op |-> "left_rotate", arg |-> NULL, cell |-> x, ret |-> RB_OK, out |-> NULL])
    /\ abs' = abs
    /\ taken' = taken

\* rb_right_rotate(tree, y) on a node y with a left child.
RightRotate(y) ==
    /\ live
    /\ y \in allocated \ {nil}
    /\ left[y] # nil
    /\ Commit(rb_right_rotate(Mem, y))
    /\ Record([op |-> "right_rotate", arg |-> NULL, cell |-> y, ret |-> RB_OK, out |-> NULL])
    /\ abs' = abs
    /\ taken' = taken

NextShape ==
    \/ IsValid
    \/ \E x \in NodeIds : LeftRotate(x)
    \/ \E y \in NodeIds : RightRotate(y)

SpecShape == InitShape /\ [][NextShape]_vars

\* ======================================================================
\* Properties
\* ======================================================================
\* The cells reachable from n by child links.
RECURSIVE NodesBelow(_, _)
NodesBelow(m, n) ==
    IF n = nil THEN {}
    ELSE {n} \cup NodesBelow(m, m.left[n]) \cup NodesBelow(m, m.right[n])

\* The nodes of the tree while it exists.
TreeNodes(m) == IF m.live THEN NodesBelow(m, m.root) ELSE {}

\* The numbers of BLACK nodes met on the paths from n down to the sentinel.
RECURSIVE PathBlacks(_, _)
PathBlacks(m, n) ==
    IF n = nil THEN {0}
    ELSE {c + (IF m.color[n] = RB_BLACK THEN 1 ELSE 0) :
              c \in PathBlacks(m, m.left[n]) \cup PathBlacks(m, m.right[n])}

\* The in-order sequence of values while the tree exists.
Walk(m) == IF m.live THEN rb_inorder_walk(m) ELSE <<>>

KeysOf(w) == {w[i][1] : i \in 1..Len(w)}

RootIsBlack(m) == m.root = nil \/ m.color[m.root] = RB_BLACK

NoRedRed(m) ==
    \A n \in TreeNodes(m) :
        m.color[n] = RB_RED =>
            m.color[m.left[n]] = RB_BLACK /\ m.color[m.right[n]] = RB_BLACK

BlackBalanced(m) ==
    \A n \in TreeNodes(m) :
        PathBlacks(m, m.left[n]) = PathBlacks(m, m.right[n])
        /\ Cardinality(PathBlacks(m, n)) = 1

\* C1: after every completed rb_insert or rb_delete the root is BLACK (or the
\* tree is empty), no RED node has a RED child, the left and right subtrees of
\* every node have the same black-height, and rb_is_valid returns true.
C1_RedBlackInvariants ==
    live => /\ RootIsBlack(Mem)
            /\ NoRedRed(Mem)
            /\ BlackBalanced(Mem)
            /\ rb_is_valid(Mem)

\* A full tree from which one deletion runs the loop of rb_delete_fixup twice
\* and leaves a valid tree.
DeleteTakesTwoPasses(r) == r.ret = RB_OK /\ r.m.passes >= 2 /\ rb_is_valid(r.m)

C1_Witness ==
    /\ live
    /\ size = MaxKey
    /\ \E k \in Keys : DeleteTakesTwoPasses(rb_delete(Mem, <<k, 0>>))

\* C2: after every completed rb_insert or rb_delete the in-order sequence of
\* the stored values is strictly increasing under the comparison function.
C2_InOrderStrictlyIncreasing ==
    \A i, j \in 1..Len(Walk(Mem)) :
        i < j => compare(Walk(Mem)[i], Walk(Mem)[j]) < 0

\* Every key is stored, and the walk visits them from the least to the greatest.
C2_Witness ==
    /\ live
    /\ KeysOf(Walk(Mem)) = Keys
    /\ Walk(Mem)[1][1] = 1
    /\ Walk(Mem)[MaxKey][1] = MaxKey

\* The object of the abstract set with key k, NULL when it has none.
AbsFind(k) ==
    IF \E u \in abs : u[1] = k THEN CHOOSE u \in abs : u[1] = k ELSE NULL

\* C3: with the abstract set run side by side, rb_search of a key returns the
\* stored value with that key when the key is in the set and NULL when it is
\* not; the rb_search calls made returned just that.
C3_SearchAgreesWithSet ==
    live =>
        /\ \A k \in Keys : rb_search(Mem, <<k, 0>>) = AbsFind(k)
        /\ (call.op = "search" /\ call.arg # NULL) => call.out = AbsFind(call.arg[1])

\* rb_delete has just removed a key from a tree of four or more, and rb_search
\* of that key now returns NULL while the other keys are found.
C3_Witness ==
    /\ live
    /\ call.op = "delete"
    /\ call.ret = RB_OK
    /\ size >= 3
    /\ rb_search(Mem, call.arg) = NULL
    /\ \E k \in Keys : rb_search(Mem, <<k, 0>>) = <<k, 1>>

\* C4: rb_size is the number of nodes reachable from the root, which is the
\* number of values the in-order walk visits, whatever the calls returned.
C4_SizeCountsNodes ==
    live =>
        /\ rb_size(Mem) = Cardinality(TreeNodes(Mem))
        /\ rb_size(Mem) = Len(rb_inorder_walk(Mem))

\* rb_insert has just returned RB_DUPLICATE on a tree of three or more.
C4_Witness ==
    /\ live
    /\ call.op = "insert"
    /\ call.ret = RB_DUPLICATE
    /\ size >= 3

\* The sequence w without the values of key k.
HasOtherKey(v, k) == v[1] # k
Without(w, k) == SelectSeq(w, LAMBDA v : HasOtherKey(v, k))

\* The call just recorded is op(arg) with arg not NULL.
Called(op) == call'.op = op /\ call'.arg # NULL

\* C5: rb_delete of a key present in the tree returns RB_OK, the in-order
\* sequence afterwards is the one before with that key's value removed, and
\* the size is one less.
C5_DeletePresent ==
    [][(Called("delete") /\ call'.arg[1] \in KeysOf(Walk(Mem))) =>
           /\ call'.ret = RB_OK
           /\ Walk(Mem)' = Without(Walk(Mem), call'.arg[1])
           /\ size' = size - 1]_vars

\* rb_delete has just removed, from the full tree, a key that is neither the
\* least nor the greatest.
C5_Witness ==
    /\ live
    /\ call.op = "delete"
    /\ call.ret = RB_OK
    /\ size = CallMaxKey - 1
    /\ call.arg[1] \notin {1, CallMaxKey}

\* The tree as the caller can see it: the root, the links, colours and values
\* of the nodes, and the count.
tree_state == <<root, size, left, right, parent, color, data, allocated>>

\* C6: rb_insert of a value whose key is already present returns RB_DUPLICATE
\* and leaves the tree unchanged.
C6_DuplicateInsert ==
    [][(Called("insert") /\ call'.arg[1] \in KeysOf(Walk(Mem))) =>
           /\ call'.ret = RB_DUPLICATE
           /\ UNCHANGED tree_state]_vars

\* C7: rb_delete of a key that is not present returns RB_NOT_FOUND, leaves the
\* root, every link and colour and the size as they were, and invokes no
\* destructor.
C7_DeleteAbsent ==
    [][(Called("delete") /\ call'.arg[1] \notin KeysOf(Walk(Mem))) =>
           /\ call'.ret = RB_NOT_FOUND
           /\ UNCHANGED tree_state
           /\ destructed' = destructed]_vars

\* rb_delete has just returned RB_NOT_FOUND on a tree of two or more from
\* which a value was deleted before.
C7_Witness ==
    /\ live
    /\ call.op = "delete"
    /\ call.ret = RB_NOT_FOUND
    /\ size >= 2
    /\ \E v \in Values : destructed[v] = 1

\* C8: with a destructor registered, a value stored in the live tree has not
\* been handed to the destructor, and a value that was successfully inserted
\* and is no longer stored (deleted, or the tree destroyed) has been handed to
\* it exactly once; no value is handed to it twice.
C8_DestructedExactlyOnce ==
    \A v \in Values :
        /\ destructed[v] <= 1
        /\ (live /\ v \in Stored) => destructed[v] = 0
        /\ (v \in taken /\ (~live \/ v \notin Stored)) => destructed[v] = 1

\* rb_tree_destroy has run on a tree of two or more after a deletion: four
\* values or more were destroyed, each once.
C8_Witness ==
    /\ ~live
    /\ call.op = "destroy"
    /\ Cardinality({v \in Values : destructed[v] = 1}) >= 4
    /\ Cardinality({v \in taken : TRUE}) >= 4

\* C9: a value whose rb_insert returned RB_DUPLICATE is not stored by that
\* call and not handed to the destructor, and the value stored under its key
\* stays the stored one; and a value that no rb_insert accepted is, after any
\* call, neither stored nor destroyed.
C9_DuplicateStaysWithCaller ==
    [][/\ \A d \in Values :
              (Called("insert") /\ call'.arg = d /\ call'.ret = RB_DUPLICATE) =>
                  /\ d \notin Stored'
                  /\ Stored' = Stored
                  /\ destructed' = destructed
                  /\ rb_search(Mem, d)' = rb_search(Mem, d)
                  /\ rb_search(Mem, d)' \notin {NULL, d}
       /\ Stored' \subseteq taken'
       /\ \A v \in Values \ taken' : destructed'[v] = 0]_vars

\* rb_insert has just returned RB_DUPLICATE for an object while another object
\* with the same key is stored.
C9_Witness ==
    /\ live
    /\ call.op = "insert"
    /\ call.ret = RB_DUPLICATE
    /\ call.arg \notin Stored
    /\ \E u \in Stored : u[1] = call.arg[1] /\ u # call.arg
    /\ size >= 2

\* C10: when malloc returns NULL for the node, rb_insert returns
\* RB_MEMORY_ERROR, the tree is as before and the value passed in is not
\* handed to the destructor.
C10_AllocationFailure ==
    [][(Called("insert") /\ call'.cell = NOCELL) =>
           /\ call'.ret = RB_MEMORY_ERROR
           /\ UNCHANGED tree_state
           /\ destructed' = destructed]_vars

\* rb_insert has just returned RB_MEMORY_ERROR on a tree of two or more, and
\* the caller still holds the value.
C10_Witness ==
    /\ live
    /\ call.op = "insert"
    /\ call.ret = RB_MEMORY_ERROR
    /\ call.cell = NOCELL
    /\ size >= 2
    /\ CallerHolds(call.arg)

\* floor(log2(n)) for n >= 1.
RECURSIVE FloorLog2(_)
FloorLog2(n) == IF n < 2 THEN 0 ELSE 1 + FloorLog2(n \div 2)

\* C11: a tree of n >= 1 elements has rb_height at most 2 * floor(log2(n + 1)).
C11_HeightBound ==
    (live /\ size >= 1) => rb_height(Mem) <= 2 * FloorLog2(size + 1)

\* A tree of six elements as high as the bound allows: four nodes on a path.
C11_Witness ==
    /\ live
    /\ size = 6
    /\ rb_height(Mem) = 4
    /\ 2 * FloorLog2(size + 1) = 4

\* The stored values greater than (less than) key k.
Above(k) == {v \in Stored : v[1] > k}
Below(k) == {v \in Stored : v[1] < k}
Least(S) == IF S = {} THEN NULL ELSE CHOOSE v \in S : \A u \in S : v[1] <= u[1]
Greatest(S) == IF S = {} THEN NULL ELSE CHOOSE v \in S : \A u \in S : v[1] >= u[1]

\* C12: for a stored key rb_successor returns the least stored value above it
\* and rb_predecessor the greatest stored value below it (NULL when there is
\* none); for a key that is not stored both return NULL.
C12_SuccessorPredecessor ==
    live =>
        \A k \in Keys :
            IF k \in KeysOf(Walk(Mem))
            THEN /\ rb_successor(Mem, <<k, 0>>) = Least(Above(k))
                 /\ rb_predecessor(Mem, <<k, 0>>) = Greatest(Below(k))
            ELSE /\ rb_successor(Mem, <<k, 0>>) = NULL
                 /\ rb_predecessor(Mem, <<k, 0>>) = NULL

\* In one tree of six or more with RED nodes: a key that is not stored, with stored values on both sides;
\* a node without right subtree whose successor is two links up; and the
\* greatest key, without successor.
C12_Witness ==
    /\ live
    /\ size >= 6
    /\ \E n \in TreeNodes(Mem) : color[n] = RB_RED
    /\ \E k \in Keys : k \notin KeysOf(Walk(Mem)) /\ Above(k) # {} /\ Below(k) # {}
    /\ \E n \in TreeNodes(Mem) :
           /\ right[n] = nil
           /\ rb_tree_successor_node(Mem, n) \notin {nil, parent[n]}
    /\ \E n \in TreeNodes(Mem) :
           /\ left[n] = nil
           /\ rb_tree_predecessor_node(Mem, n) \notin {nil, parent[n]}
    /\ rb_successor(Mem, Greatest(Stored)) = NULL

\* The three red-black rules, stated on the paths of the tree.
RedBlackRules(m) == RootIsBlack(m) /\ NoRedRed(m) /\ BlackBalanced(m)

\* C13: on every coloured binary tree rb_is_valid returns true exactly when
\* the root is BLACK or the tree is empty, no RED node has a RED child and the
\* two subtrees of every node have equal black-height; it leaves the tree as
\* it was.
C13_IsValidDecidesTheRules ==
    [][call'.op = "is_valid" =>
           /\ call'.ret = (IF RedBlackRules(Mem) THEN 1 ELSE 0)
           /\ UNCHANGED tree_state]_vars

\* rb_is_valid has returned false on a tree of MaxShape nodes whose only fault
\* is an unequal black-height.
C13_Witness ==
    /\ call.op = "is_valid"
    /\ call.ret = 0
    /\ size = MaxShape
    /\ RootIsBlack(Mem)
    /\ NoRedRed(Mem)
    /\ ~BlackBalanced(Mem)

\* C14: rb_is_valid returns false on every coloured binary tree whose
\* in-order sequence is not strictly increasing.
C14_IsValidChecksOrder ==
    (live /\ rb_is_valid(Mem)) => C2_InOrderStrictlyIncreasing

\* The number of left, right and parent links that differ before and after.
LinksChanged ==
    Cardinality({c \in Cells : left'[c] # left[c]})
    + Cardinality({c \in Cells : right'[c] # right[c]})
    + Cardinality({c \in Cells : parent'[c] # parent[c]})

\* C20: a rotation leaves the in-order sequence, the set of nodes and every
\* colour as they were and changes at most 6 links, and the root link only
\* when the rotated node was the root.
C20_RotationFrame ==
    [][call'.op \in {"left_rotate", "right_rotate"} =>
           /\ Walk(Mem)' = Walk(Mem)
           /\ TreeNodes(Mem)' = TreeNodes(Mem)
           /\ color' = color
           /\ LinksChanged <= 6
           /\ root' # root => call'.cell = root]_vars

\* rb_left_rotate has just rotated a node that had a parent and whose right
\* child had a left subtree: all six links were written.
C20_Witness ==
    /\ call.op = "left_rotate"
    /\ right[call.cell] # nil
    /\ parent[parent[call.cell]] # nil

\* The values held by the nodes of the tree.
NodeValues(m) == {m.data[n] : n \in TreeNodes(m)}

\* The values of the subtree rooted at n.
ValuesUnder(m, n) == {m.data[d] : d \in NodesBelow(m, n)}

\* The place of value v in the sequence w of visits.
Pos(w, v) == CHOOSE i \in 1..Len(w) : w[i] = v

\* The visitor was called once for each value of the tree.
OncePerValue(m, w) ==
    /\ Len(w) = Cardinality(NodeValues(m))
    /\ {w[i] : i \in 1..Len(w)} = NodeValues(m)

Ascending(w) == \A i \in 1..(Len(w) - 1) : compare(w[i], w[i + 1]) < 0

\* Every node is visited before the nodes of its subtrees, the left subtree
\* before the right one.
NodeFirst(m, w) ==
    \A n \in TreeNodes(m) :
        /\ \A v \in ValuesUnder(m, m.left[n]) \cup ValuesUnder(m, m.right[n]) :
               Pos(w, m.data[n]) < Pos(w, v)
        /\ \A l \in ValuesUnder(m, m.left[n]) : \A r \in ValuesUnder(m, m.right[n]) :
               Pos(w, l) < Pos(w, r)

\* Every node is visited after the nodes of its subtrees.
NodeLast(m, w) ==
    \A n \in TreeNodes(m) :
        \A v \in ValuesUnder(m, m.left[n]) \cup ValuesUnder(m, m.right[n]) :
            Pos(w, v) < Pos(w, m.data[n])

\* C15: each of the three walks calls the visitor exactly once per stored
\* value; the in-order walk in ascending order, the pre-order walk on each
\* node before the nodes of its subtrees and on the left subtree before the
\* right one, the post-order walk on each node after the nodes of its subtrees.
C15_Walks ==
    live =>
        /\ OncePerValue(Mem, rb_inorder_walk(Mem))
        /\ OncePerValue(Mem, rb_preorder_walk(Mem))
        /\ OncePerValue(Mem, rb_postorder_walk(Mem))
        /\ Ascending(rb_inorder_walk(Mem))
        /\ NodeFirst(Mem, rb_preorder_walk(Mem))
        /\ NodeLast(Mem, rb_postorder_walk(Mem))

\* A tree built by rb_insert and rb_delete, with a RED node, in which the
\* three walks differ and some node has two subtrees of two or more nodes.
C15_Witness ==
    /\ live
    /\ size >= 7
    /\ \E n \in TreeNodes(Mem) : color[n] = RB_RED
    /\ \E n \in TreeNodes(Mem) :
           /\ Cardinality(NodesBelow(Mem, left[n])) >= 2
           /\ Cardinality(NodesBelow(Mem, right[n])) >= 2
    /\ rb_preorder_walk(Mem) # rb_inorder_walk(Mem)
    /\ rb_postorder_walk(Mem) # rb_inorder_walk(Mem)
    /\ rb_postorder_walk(Mem) # rb_preorder_walk(Mem)

\* The cells in places from..to of the order of frees.
FreedIn(m, from, to) == {m.freed[i] : i \in from..to}

\* C17: rb_tree_destroy ends, frees each node of the tree exactly once,
\* touches no cell it has freed, and frees the sentinel and then the tree
\* object after all the nodes.
C17_DestroyFreesAll ==
    live =>
        /\ ~rb_tree_destroy(Mem).live
        /\ Len(rb_tree_destroy(Mem).freed) = Cardinality(TreeNodes(Mem)) + 2
        /\ FreedIn(rb_tree_destroy(Mem), 1, Cardinality(TreeNodes(Mem))) = TreeNodes(Mem)
        /\ rb_tree_destroy(Mem).freed[Cardinality(TreeNodes(Mem)) + 1] = nil
        /\ rb_tree_destroy(Mem).freed[Cardinality(TreeNodes(Mem)) + 2] = TREE_OBJECT
        /\ ~rb_tree_destroy(Mem).stray

\* rb_tree_destroy on a full tree with a RED node: MaxKey nodes, the sentinel
\* and the tree object are freed.
C17_Witness ==
    /\ live
    /\ size = MaxKey
    /\ \E n \in TreeNodes(Mem) : color[n] = RB_RED
    /\ Len(rb_tree_destroy(Mem).freed) = MaxKey + 2
    /\ rb_tree_destroy(Mem).allocated = {}

\* The sentinel's colour, value and child links are as rb_tree_create set them.
SentinelAsCreated ==
    /\ color[nil] = RB_BLACK
    /\ data[nil] = NULL
    /\ left[nil] = nil
    /\ right[nil] = nil

\* C16: in every state the sentinel's colour, value, left link, right link
\* and parent link have the values rb_tree_create gave them.
C16_SentinelNeverMutated ==
    live => (SentinelAsCreated /\ parent[nil] = nil)

\* The writes to the sentinel that change nothing but its parent link: a write
\* of the parent link, and BLACK written over BLACK (x->color = RB_BLACK at the
\* end of rb_delete_fixup, x being the sentinel).
ParentOrSame == ({"parent"} \X Cells) \cup {<<"color", RB_BLACK>>}

\* C16, amended: the sentinel's colour, value, left link and right link never
\* change, during or after a call; rb_insert writes no field of the sentinel,
\* and rb_delete writes its parent link and nothing else that changes it.
C16_SentinelKeepsAllButParent ==
    live =>
        /\ SentinelAsCreated
        /\ \A d \in (1..CallMaxKey) \X {1} : \A cell \in MallocResults(d) :
               rb_insert(Mem, d, cell).m.nil_writes = {}
        /\ \A d \in (1..CallMaxKey) \X {0} :
               rb_delete(Mem, d).m.nil_writes \subseteq ParentOrSame

\* rb_delete has removed a value and left the sentinel's parent link at a
\* node; a further rb_delete would write that link again.
C16_Witness ==
    /\ live
    /\ call.op = "delete"
    /\ call.ret = RB_OK
    /\ parent[nil] \in NodeIds
    /\ size >= 3
    /\ \E d \in (1..CallMaxKey) \X {0} : \E n \in NodeIds :
           /\ n # parent[nil]
           /\ <<"parent", n>> \in rb_delete(Mem, d).m.nil_writes

\* Scenario A: the values in the order of the calls, and the cell malloc hands
\* out for each.
ScenarioValues == <<50, 30, 70, 20, 40, 60, 80>>
ScenarioCells  == <<5, 3, 7, 2, 4, 6, 8>>

\* rb_insert of the values from place i on; [m, ok]: the memory after them
\* and whether every call returned RB_OK.
RECURSIVE InsertFrom(_, _, _)
InsertFrom(m, i, ok) ==
    IF i > Len(ScenarioValues) THEN [m |-> m, ok |-> ok]
    ELSE InsertFrom(rb_insert(m, <<ScenarioValues[i], 1>>, ScenarioCells[i]).m, i + 1,
                    ok /\ rb_insert(m, <<ScenarioValues[i], 1>>, ScenarioCells[i]).ret = RB_OK)

ScenarioA(m) == InsertFrom(m, 1, TRUE)

\* C18: inserting 50, 30, 70, 20, 40, 60, 80 in that order into an empty tree
\* gives the in-order walk 20, 30, 40, 50, 60, 70, 80, a BLACK root holding 50,
\* and a tree rb_is_valid accepts.
C18_ScenarioA ==
    (live /\ size = 0 /\ root = nil) =>
        /\ ScenarioA(Mem).ok
        /\ rb_inorder_walk(ScenarioA(Mem).m)
               = <<<<20, 1>>, <<30, 1>>, <<40, 1>>, <<50, 1>>, <<60, 1>>, <<70, 1>>, <<80, 1>>>>
        /\ ScenarioA(Mem).m.data[ScenarioA(Mem).m.root] = <<50, 1>>
        /\ ScenarioA(Mem).m.color[ScenarioA(Mem).m.root] = RB_BLACK
        /\ rb_is_valid(ScenarioA(Mem).m)
        /\ rb_size(ScenarioA(Mem).m) = 7

\* An empty tree, and the seven values go in: 20 meets a RED uncle and the
\* fixup loop makes a pass, no call rotates.
C18_Witness ==
    /\ live
    /\ size = 0
    /\ root = nil
    /\ allocated = {nil}
    /\ ScenarioA(Mem).ok
    /\ ScenarioA(Mem).m.size = 7
    /\ ScenarioA(Mem).m.allocated = {nil} \cup {ScenarioCells[i] : i \in 1..7}
    /\ ScenarioA(Mem).m.passes = 1
    /\ ScenarioA(Mem).m.rotations = 0

\* The stored values from min_key to max_key.
InRange(min_key, max_key) ==
    {v \in Stored : compare(v, min_key) >= 0 /\ compare(v, max_key) <= 0}

\* C19: for min_key <= max_key rb_count_range returns the number of stored
\* values v with min_key <= v <= max_key.
C19_CountRangeExact ==
    live =>
        \A min_key \in Probes : \A max_key \in Probes :
            compare(min_key, max_key) <= 0 =>
                rb_count_range(Mem, min_key, max_key)
                    = Cardinality(InRange(min_key, max_key))

\* C26: a single rb_insert call makes at most 2 rotations, whatever the tree,
\* the key and the result of malloc.
C26_InsertRotations ==
    live =>
        \A d \in Keys \X {1} : \A cell \in MallocResults(d) :
            rb_insert(Mem, d, cell).m.rotations <= 2

\* A tree and a key for which rb_insert rotates twice, after a pass that only
\* recolours.
C26_Witness ==
    /\ live
    /\ \E d \in Keys \X {1} : \E cell \in MallocResults(d) :
           /\ rb_insert(Mem, d, cell).ret = RB_OK
           /\ rb_insert(Mem, d, cell).m.rotations = 2
           /\ rb_insert(Mem, d, cell).m.passes = 2

\* C27: a single rb_delete call makes at most 3 rotations, whatever the tree
\* and the key.
C27_DeleteRotations ==
    live => \A d \in Probes : rb_delete(Mem, d).m.rotations <= 3

\* A tree and a key for which rb_delete rotates three times.
C27_Witness ==
    /\ live
    /\ \E d \in Probes :
           /\ rb_delete(Mem, d).ret = RB_OK
           /\ rb_delete(Mem, d).m.rotations = 3

\* C28: every rb_insert and rb_delete call ends, and the fixup loop of the
\* call makes no more passes than the tree is high when the call is made.
C28_FixupPassesBounded ==
    live =>
        /\ \A d \in Keys \X {1} : \A cell \in MallocResults(d) :
               /\ rb_insert(Mem, d, cell).ret \in {RB_OK, RB_DUPLICATE, RB_MEMORY_ERROR}
               /\ rb_insert(Mem, d, cell).m.passes <= rb_height(Mem)
        /\ \A d \in Probes :
               /\ rb_delete(Mem, d).ret \in {RB_OK, RB_NOT_FOUND}
               /\ rb_delete(Mem, d).m.passes <= rb_height(Mem)

\* A tree of height 4 in which one rb_delete takes two passes through its
\* fixup loop without a rotation: the cursor climbs twice.
C28_Witness ==
    /\ live
    /\ rb_height(Mem) = 4
    /\ \E d \in Probes :
           /\ rb_delete(Mem, d).ret = RB_OK
           /\ rb_delete(Mem, d).m.passes = 2
           /\ rb_delete(Mem, d).m.rotations = 0

\* C29: rb_insert decides RB_DUPLICATE before it asks for a node, so it
\* returns RB_MEMORY_ERROR only for keys that are not in the tree.
C29_MemoryErrorOnlyForAbsentKeys ==
    [][(Called("insert") /\ call'.ret = RB_MEMORY_ERROR) =>
           call'.arg[1] \notin KeysOf(Walk(Mem))]_vars

\* The cells met on the way down from n along child links, a cell once for
\* every path that leads to it; the descent gives up below depth fuel, and
\* says so with NOCELL.
RECURSIVE Descent(_, _, _)
Descent(m, n, fuel) ==
    IF n = nil THEN <<>>
    ELSE IF fuel = 0 \/ n \notin m.allocated THEN <<NOCELL>>
    ELSE <<n>> \o Descent(m, m.left[n], fuel - 1) \o Descent(m, m.right[n], fuel - 1)

\* Each node is met once, none is missing, and the descent ends: one path
\* from the root to every node, no cycle, no node shared or lost.
OnePathToEachNode(m) ==
    /\ Len(Descent(m, m.root, MaxKey + 1)) = Cardinality(m.allocated \ {nil})
    /\ {Descent(m, m.root, MaxKey + 1)[i] : i \in 1..Len(Descent(m, m.root, MaxKey + 1))}
           = m.allocated \ {nil}

\* Children point back at their parents, and the root at the sentinel.
ParentsAgree(m) ==
    /\ m.root # nil => m.parent[m.root] = nil
    /\ \A n \in m.allocated \ {nil} :
           /\ m.left[n] # nil => m.parent[m.left[n]] = n
           /\ m.right[n] # nil => m.parent[m.right[n]] = n

\* The links of the nodes lead to cells of the heap.
NodeLinksAlive(m) ==
    \A n \in m.allocated \ {nil} :
        {m.left[n], m.right[n], m.parent[n]} \subseteq m.allocated

\* The link structure of a tree, the sentinel's own links left aside.
WellFormed(m) ==
    /\ nil \in m.allocated
    /\ ParentsAgree(m)
    /\ OnePathToEachNode(m)
    /\ NodeLinksAlive(m)
    /\ m.root = nil <=> m.size = 0

\* C30: after every completed rb_insert or rb_delete the root's parent is the
\* sentinel, every child points back at its parent, every node is reached
\* from the root by exactly one path, no link that can be reached points to a
\* freed node, the sentinel's links included, and the root is the sentinel
\* exactly when the size is 0.
C30_WellFormedLinks ==
    live => (WellFormed(Mem) /\ {left[nil], right[nil], parent[nil]} \subseteq allocated)

\* C30, amended: as C30 for the links of the nodes of the tree and for the
\* sentinel's child links; the sentinel's parent link may point to a freed
\* node.
C30_WellFormedNodeLinks ==
    live => (WellFormed(Mem) /\ {left[nil], right[nil]} \subseteq allocated)

\* rb_delete has just returned; the tree has a RED node and three or more
\* nodes, and the sentinel's parent link points to a node freed by this or an
\* earlier rb_delete.
C30_Witness ==
    /\ live
    /\ call.op = "delete"
    /\ call.ret = RB_OK
    /\ size >= 3
    /\ \E n \in TreeNodes(Mem) : color[n] = RB_RED
    /\ parent[nil] \in NodeIds \ allocated
    /\ WellFormed(Mem)

\* C23: the sentinel is BLACK in every state, the states inside the two
\* fixups included: no step of rb_insert or rb_delete writes RED to it.
C23_SentinelStaysBlack ==
    live =>
        /\ color[nil] = RB_BLACK
        /\ \A d \in Keys \X {1} : \A cell \in MallocResults(d) :
               <<"color", RB_RED>> \notin rb_insert(Mem, d, cell).m.nil_writes
        /\ \A d \in Probes :
               <<"color", RB_RED>> \notin rb_delete(Mem, d).m.nil_writes

\* A tree in which rb_delete enters its fixup with the sentinel as the cursor
\* (its parent link has just been written) and recolours in two passes.
C23_Witness ==
    /\ live
    /\ size = MaxKey
    /\ \E d \in Probes : \E p \in NodeIds :
           /\ rb_delete(Mem, d).ret = RB_OK
           /\ rb_delete(Mem, d).m.passes = 2
           /\ <<"parent", p>> \in rb_delete(Mem, d).m.nil_writes

\* C21: every rotation rb_insert_fixup and rb_delete_fixup ask for is of a
\* node that is not the sentinel and that has the child the rotation brings
\* up: a right child for rb_left_rotate, a left child for rb_right_rotate.
C21_RotationPreconditions ==
    live =>
        /\ \A d \in Keys \X {1} : \A cell \in MallocResults(d) :
               ~rb_insert(Mem, d, cell).m.bad_rotation
        /\ \A d \in Probes : ~rb_delete(Mem, d).m.bad_rotation

\* A tree in which one rb_insert rotates twice and one rb_delete rotates.
C21_Witness ==
    /\ live
    /\ \E d \in Keys \X {1} : \E cell \in MallocResults(d) :
           /\ rb_insert(Mem, d, cell).m.rotations = 2
           /\ ~rb_insert(Mem, d, cell).m.bad_rotation
    /\ \E d \in Probes :
           /\ rb_delete(Mem, d).m.rotations >= 1
           /\ ~rb_delete(Mem, d).m.bad_rotation

\* The parent of the place the spliced-out node leaves, in the tree before
\* rb_delete of z: z's parent when z has a child missing; else, y being the
\* least node of z's right subtree, y itself when it is z's child and y's
\* parent when it is not.
VacatedParent(m, z) ==
    IF m.left[z] = nil \/ m.right[z] = nil THEN m.parent[z]
    ELSE IF m.parent[rb_tree_minimum_node(m, m.right[z])] = z
         THEN rb_tree_minimum_node(m, m.right[z])
         ELSE m.parent[rb_tree_minimum_node(m, m.right[z])]

\* The sibling rb_delete_fixup reads first, s being [m, x] at its entry.
FirstSibling(s) ==
    IF s.x = s.m.left[s.m.parent[s.x]] THEN s.m.right[s.m.parent[s.x]]
    ELSE s.m.left[s.m.parent[s.x]]

\* rb_delete of node z enters rb_delete_fixup, with a cursor that is not the root.
EntersFixup(m, z) ==
    /\ delete_splice(m, z).y_original_color = RB_BLACK
    /\ delete_splice(m, z).x # delete_splice(m, z).m.root

\* At the entry s = [m, x] of the fixup: x's parent link leads to p, x is in
\* a child slot of p, and the sibling is a node of the tree other than z.
CursorHangsBelow(s, p, z) ==
    /\ s.m.parent[s.x] = p
    /\ p \in TreeNodes(s.m)
    /\ s.x \in {s.m.left[p], s.m.right[p]}
    /\ FirstSibling(s) \in TreeNodes(s.m) \ {s.x, z}

\* C24: when rb_delete_fixup is entered with a cursor x that is not the root,
\* the sentinel included, x's parent link leads to the node whose child slot
\* x has taken, the parent of the place the spliced-out node has left, and the
\* sibling read through it is a node of the tree.
C24_CursorParentAtFixupEntry ==
    live =>
        \A z \in TreeNodes(Mem) :
            EntersFixup(Mem, z) =>
                CursorHangsBelow(delete_splice(Mem, z), VacatedParent(Mem, z), z)

\* rb_delete of a node with two children whose successor y is its BLACK right
\* child without children: the fixup is entered with the sentinel as cursor
\* and y as its parent; and rb_delete of another node enters it with a cursor
\* that is a node.
C24_Witness ==
    /\ live
    /\ \E z \in TreeNodes(Mem) :
           /\ left[z] # nil
           /\ right[z] # nil
           /\ EntersFixup(Mem, z)
           /\ delete_splice(Mem, z).x = nil
           /\ delete_splice(Mem, z).m.parent[nil] = right[z]
    /\ \E z \in TreeNodes(Mem) :
           /\ EntersFixup(Mem, z)
           /\ delete_splice(Mem, z).x # nil

\* The slot of the tree that holds node n: the root link, or a child link of
\* n's parent.
HeldBy(m, n, p) ==
    IF p = nil THEN m.root = n ELSE n \in {m.left[p], m.right[p]}

\* After the splice s of rb_delete of z in tree m, y having been the least
\* node of z's right subtree: y is where z was, with z's colour, parent and
\* left subtree, and with z's right subtree unless y was its root.
TakesPlaceOf(m, s, z, y) ==
    /\ s.m.color[y] = m.color[z]
    /\ s.m.parent[y] = m.parent[z]
    /\ HeldBy(s.m, y, m.parent[z])
    /\ ~HeldBy(s.m, z, m.parent[z])
    /\ s.m.left[y] = m.left[z]
    /\ s.m.parent[m.left[z]] = y
    /\ s.m.right[y] = (IF m.right[z] = y THEN m.right[y] ELSE m.right[z])
    /\ s.x = m.right[y]
    /\ s.y_original_color = m.color[y]

\* rb_delete r of node z in tree m frees z and no other cell, and leaves each
\* other node the value it had.
RemovesOnly(m, r, z) ==
    /\ r.ret = RB_OK
    /\ r.m.freed = <<z>>
    /\ r.m.allocated = m.allocated \ {z}
    /\ TreeNodes(r.m) = TreeNodes(m) \ {z}
    /\ \A n \in TreeNodes(r.m) : r.m.data[n] = m.data[n]

RedRedOnlyAt(m, z) ==
    \A n \in TreeNodes(m) :
        m.color[n] = RB_RED =>
            /\ m.color[m.left[n]] = RB_RED => m.left[n] = z
            /\ m.color[m.right[n]] = RB_RED => m.right[n] = z

\* The invariant of the loop of rb_insert_fixup, h being the memory and the
\* cursor at the test of the loop.
InsertLoopInvariant(h) ==
    /\ h.z \in TreeNodes(h.m)
    /\ h.m.color[h.z] = RB_RED
    /\ RedRedOnlyAt(h.m, h.z)
    /\ BlackBalanced(h.m)
    /\ Ascending(rb_inorder_walk(h.m))
    /\ h.m.color[h.m.root] = RB_RED => h.z = h.m.root

HeadsHold(heads) == \A i \in 1..Len(heads) : InsertLoopInvariant(heads[i])

\* C22: each time the test of the loop of rb_insert_fixup is made, z is RED,
\* a RED node with a RED child is z's parent with z, the black-heights agree at
\* every node, the in-order sequence ascends, and the root is RED only when it
\* is z.
C22_InsertFixupLoopInvariant ==
    live =>
        \A d \in Keys \X {1} : \A cell \in MallocResults(d) :
            HeadsHold(rb_insert(Mem, d, cell).m.heads)

\* The heads of one rb_insert: the test is made three times; at the first z
\* and its parent are both RED, at the second z is the grandparent and the
\* two are RED again, at the third the loop ends.
C22_Witness ==
    /\ live
    /\ \E d \in Keys \X {1} : \E cell \in MallocResults(d) :
           /\ Len(rb_insert(Mem, d, cell).m.heads) = 3
           /\ rb_insert(Mem, d, cell).m.heads[1].z = cell
           /\ rb_insert(Mem, d, cell).m.heads[2].z # cell
           /\ ~NoRedRed(rb_insert(Mem, d, cell).m.heads[1].m)
           /\ ~NoRedRed(rb_insert(Mem, d, cell).m.heads[2].m)
           /\ NoRedRed(rb_insert(Mem, d, cell).m.heads[3].m)

====
